---- MODULE Spec2Model ----
(***************************************************************************)
(* Model of the vscode-openapi extension core:                             *)
(*   - the editor event handlers of extension.ts (onActiveEditorChanged,   *)
(*     onDocumentChanged, the close handler and the activation refresh),   *)
(*     with the diagnostics collection, the context flags and the three    *)
(*     event emitters;                                                     *)
(*   - the audit flow of audit/activate.ts (findIssueLocation,             *)
(*     processIssues, auditDocument).                                      *)
(***************************************************************************)
EXTENDS Integers, Sequences, FiniteSets, TLC

\* ------------------------------------------------------------------ bounds

\* Text versions over all documents together (each open or edit makes one).
MaxTextVersions == 4

\* Issues in one response of the audit service.
MaxIssues == 3

\* ------------------------------------------------------------- value sets

\* No active editor / no uri
Null == "null"

\* A null Node (no tree), and a null list of errors (also: no diagnostics entry)
NullNode == [openapi |-> "none", complete |-> FALSE]
NoErrors == <<>>

Uris == {"file:///a.json", "file:///b.yaml"}

\* OpenApiVersion of types.ts
V2 == "V2"
V3 == "V3"
Unknown == "Unknown"
OpenApiVersion == {V2, V3, Unknown}

\* Text of a closed document (no TextDocument object exists for it).
NoText == [languageId |-> "closed", version |-> Unknown, broken |-> FALSE]

\* Document texts, by what the parser can see in them: the language of the
\* document, the OpenAPI version key the text carries, whether it has a
\* syntax error.  One representative stands for all unsupported documents.
Texts ==
    { [languageId |-> "json", version |-> v, broken |-> b] :
          v \in OpenApiVersion, b \in BOOLEAN }
    \cup { [languageId |-> "plaintext", version |-> Unknown, broken |-> FALSE] }

VARIABLES
    activated,    \* activate() has run its refresh and registered the handlers
    open,         \* uris of the open text documents
    text,         \* uri -> current text of the document
    docVersion,   \* uri -> TextDocument.version, counts the texts the uri has held
    active,       \* uri of vscode.window.activeTextEditor, or Null
    diagnostics,  \* runtimeContext.diagnostics: uri -> errors, NoErrors for no entry
    context,      \* the setContext keys
    lastFired,    \* last payload of each emitter
    emitted,      \* notifications of the handler that ran last, in order
    parsedVersion,\* uri -> the docVersion the delivered tree and the entry come from,
                  \* and the newest docVersion parsed
    lastEvent     \* the event handled last

editorVars == <<activated, open, text, docVersion, active, diagnostics, context,
                lastFired, emitted, parsedVersion, lastEvent>>

VARIABLES
    root,             \* cache.getLastGoodDocumentAst(mainDocument): the pointers it holds
    mappings,         \* the bundler's mapping table: pointer -> entry
    auditPc,          \* where auditDocument stands
    auditFailure,     \* what rejected auditDocument
    auditCalls,       \* calls of the remote audit(...) made
    reportedIssues,   \* the issues of the audit response
    documentUris,     \* processIssues: Object.keys(documentUris), in insertion order
    issuesPerDocument,\* processIssues: uri -> issues, a key exists where the list is not empty
    badIssues,        \* processIssues: the issues without a location
    files,            \* auditDocument: uris of the loaded [document, root] pairs
    loadIndex,        \* auditDocument: position of the loading loop in documentUris
    opened,           \* uris given to vscode.workspace.openTextDocument, in order
    auditResult       \* what auditDocument returned

auditVars == <<root, mappings, auditPc, auditFailure, auditCalls, reportedIssues,
               documentUris, issuesPerDocument, badIssues, files, loadIndex, opened,
               auditResult>>

vars == <<editorVars, auditVars>>

\* The sum of f over S
RECURSIVE SumOver(_, _)
SumOver(f, S) ==
    IF S = {} THEN 0
    ELSE LET x == CHOOSE y \in S : TRUE IN f[x] + SumOver(f, S \ {x})

\* Number of text versions made so far
TotalVersions == SumOver(docVersion, Uris)

\* ------------------------------------------------------------ parseDocument

\* The tree the tolerant parser builds: a partial tree when the text is broken.
ParseTree(t) == [openapi |-> t.version, complete |-> ~t.broken]

\* getOpenApiVersion: read from the tree
TreeVersion(node) == IF node = NullNode THEN Unknown ELSE node.openapi

\* parseDocument(document) -> [version, node, errors]
parseDocument(t) ==
    IF t.languageId # "json"
    THEN [version |-> Unknown, node |-> NullNode, errors |-> NoErrors]
    ELSE LET node == ParseTree(t)
         IN [version |-> TreeVersion(node),
             node    |-> node,
             errors  |-> IF t.broken THEN <<"syntax error">> ELSE NoErrors]

\* ------------------------------------------------------------- the handlers

\* Mutant of updateVersionContext: the flag of the other version is not cleared
updateVersionContextSetOnly(version, c) ==
    IF version = V2
    THEN [c EXCEPT !.openapiTwoEnabled = TRUE]
    ELSE IF version = V3
    THEN [c EXCEPT !.openapiThreeEnabled = TRUE]
    ELSE [c EXCEPT !.openapiTwoEnabled = FALSE, !.openapiThreeEnabled = FALSE]

\* updateVersionContext(version), on the context c
updateVersionContext(version, c) ==
    IF version = V2
    THEN [c EXCEPT !.openapiTwoEnabled = TRUE, !.openapiThreeEnabled = FALSE]
    ELSE IF version = V3
    THEN [c EXCEPT !.openapiThreeEnabled = TRUE, !.openapiTwoEnabled = FALSE]
    ELSE [c EXCEPT !.openapiTwoEnabled = FALSE, !.openapiThreeEnabled = FALSE]

\* Mutant of DiagnosticsAfter: the entry is set on errors and never deleted
DiagnosticsAfterSetOnly(uri, errors, d) ==
    IF errors # NoErrors THEN [d EXCEPT ![uri] = errors] ELSE d

\* if (errors) diagnostics.set(uri, errors) else diagnostics.delete(uri), as
\* both handlers and updateDiagnostics do it: the resulting collection
DiagnosticsAfter(uri, errors, d) ==
    IF errors # NoErrors THEN [d EXCEPT ![uri] = errors]
    ELSE [d EXCEPT ![uri] = NoErrors]

\* Mutant of ErrorsFlagAfter: openapiErrors is never set
ErrorsFlagNever(errors) == FALSE

\* ... and the openapiErrors flag set in the same branch
ErrorsFlagAfter(errors) == errors # NoErrors

\* One notification as a subscriber sees it at fire() time: the payload and
\* the diagnostics entry and openapiErrors flag it can read at that moment.
Fire(emitter, node, editor, version, event, d, c) ==
    [emitter |-> emitter, node |-> node, editor |-> editor, version |-> version,
     event |-> event,
     diag |-> IF editor = Null THEN NoErrors ELSE d[editor],
     openapiErrors |-> c.openapiErrors]

\* The last payload of each emitter after the notifications in log
RECURSIVE FiredAfter(_, _)
FiredAfter(f, log) ==
    IF log = <<>> THEN f
    ELSE LET n == Head(log)
         IN FiredAfter(
              IF n.emitter = "didChangeTree"
              THEN [f EXCEPT !.didChangeTree = n.node]
              ELSE IF n.emitter = "didChangeTreeIncludingErrors"
              THEN [f EXCEPT !.didChangeTreeIncludingErrors = n.node]
              ELSE [f EXCEPT !.didChangeEditor = n.editor],
              Tail(log))

\* Which text version the tree last delivered for uri and its diagnostics
\* entry come from, after a parse r of version v that emitted log and left
\* the collection d
ParsedAfter(pv, uri, v, r, log, d) ==
    [pv EXCEPT ![uri] =
        [tree |-> IF \E i \in 1..Len(log) :
                        /\ log[i].emitter = "didChangeTreeIncludingErrors"
                        /\ log[i].editor = uri
                        /\ log[i].node = r.node
                  THEN v ELSE @.tree,
         diag |-> IF d[uri] = r.errors THEN v ELSE @.diag,
         max  |-> v]]

\* onActiveEditorChanged with an editor: the context after the handler
onActiveEditorChangedContext(r, c) ==
    [updateVersionContext(r.version, c) EXCEPT
        !.openapiErrors = ErrorsFlagAfter(r.errors)]

\* Mutant of onActiveEditorChangedEmits: didChangeTree fires also on errors
onActiveEditorChangedEmitsAlways(r, editor, d, c) ==
    <<Fire("didChangeTree", r.node, editor, r.version, Null, d, c),
      Fire("didChangeTreeIncludingErrors", r.node, editor, r.version, Null, d, c),
      Fire("didChangeEditor", r.node, editor, r.version, Null, d, c)>>

\* onActiveEditorChanged with an editor: the notifications, in order; d and c
\* are the collection and context the handler has written before firing
onActiveEditorChangedEmits(r, editor, d, c) ==
    (IF r.errors # NoErrors THEN <<>>
     ELSE <<Fire("didChangeTree", r.node, editor, r.version, Null, d, c)>>)
    \o <<Fire("didChangeTreeIncludingErrors", r.node, editor, r.version, Null, d, c),
         Fire("didChangeEditor", r.node, editor, r.version, Null, d, c)>>

\* Mutant of onActiveEditorChangedNoEditor: didChangeEditor is not fired
onActiveEditorChangedNoEditorTreesOnly(d, c) ==
    <<Fire("didChangeTree", NullNode, Null, Unknown, Null, d, c),
      Fire("didChangeTreeIncludingErrors", NullNode, Null, Unknown, Null, d, c)>>

\* onActiveEditorChanged without an editor: the notifications
onActiveEditorChangedNoEditor(d, c) ==
    <<Fire("didChangeTree", NullNode, Null, Unknown, Null, d, c),
      Fire("didChangeTreeIncludingErrors", NullNode, Null, Unknown, Null, d, c),
      Fire("didChangeEditor", NullNode, Null, Unknown, Null, d, c)>>

\* onActiveEditorChanged(editor, ...): editor is a uri or Null
onActiveEditorChanged(editor) ==
    IF editor # Null
    THEN LET r   == parseDocument(text[editor])
             d2  == DiagnosticsAfter(editor, r.errors, diagnostics)
             c2  == onActiveEditorChangedContext(r, context)
             log == onActiveEditorChangedEmits(r, editor, d2, c2)
         IN /\ diagnostics' = d2
            /\ context' = c2
            /\ emitted' = log
            /\ lastFired' = FiredAfter(lastFired, log)
            /\ parsedVersion' =
                   ParsedAfter(parsedVersion, editor, docVersion[editor], r, log, d2)
    ELSE LET log == onActiveEditorChangedNoEditor(diagnostics, context)
         IN /\ emitted' = log
            /\ lastFired' = FiredAfter(lastFired, log)
            /\ UNCHANGED <<diagnostics, context, parsedVersion>>

\* Mutant of IsActiveEditorDocument: the event's uri is not compared
IsAnyEditorDocument(uri) == active # Null

\* onDocumentChanged: "check change events for the active editor only"
IsActiveEditorDocument(uri) == active # Null /\ active = uri

\* Mutant of onDocumentChangedContext: the version context follows every parse
onDocumentChangedContextAlways(r, c) ==
    [updateVersionContext(r.version, c) EXCEPT
        !.openapiErrors = ErrorsFlagAfter(r.errors)]

\* onDocumentChanged: the context after the handler
onDocumentChangedContext(r, c) ==
    LET c2 == [c EXCEPT !.openapiErrors = ErrorsFlagAfter(r.errors)]
    IN IF r.errors # NoErrors THEN c2 ELSE updateVersionContext(r.version, c2)

\* Mutant of onDocumentChangedEmits: didChangeTree fires also on errors
onDocumentChangedEmitsAlways(r, uri, d0, c0, d2, c3) ==
    <<Fire("didChangeTreeIncludingErrors", r.node, uri, r.version, "edit", d0, c0),
      Fire("didChangeTree", r.node, uri, r.version, "edit", d2, c3)>>

\* Mutant of onDocumentChangedEmits: nothing fires on errors
onDocumentChangedEmitsValidOnly(r, uri, d0, c0, d2, c3) ==
    IF r.errors # NoErrors THEN <<>>
    ELSE <<Fire("didChangeTreeIncludingErrors", r.node, uri, r.version, "edit", d0, c0),
           Fire("didChangeTree", r.node, uri, r.version, "edit", d2, c3)>>

\* onDocumentChanged: the notifications, in order; d0, c0 are the collection
\* and context before the handler wrote them, d2, c3 after
onDocumentChangedEmits(r, uri, d0, c0, d2, c3) ==
    <<Fire("didChangeTreeIncludingErrors", r.node, uri, r.version, "edit", d0, c0)>>
    \o (IF r.errors # NoErrors THEN <<>>
        ELSE <<Fire("didChangeTree", r.node, uri, r.version, "edit", d2, c3)>>)

\* onDocumentChanged(event, ...): the event's document is uri, its text is
\* already the new text t and its version v
onDocumentChanged(uri, t, v) ==
    IF IsActiveEditorDocument(uri)
    THEN LET r   == parseDocument(t)
             d2  == DiagnosticsAfter(uri, r.errors, diagnostics)
             c3  == onDocumentChangedContext(r, context)
             log == onDocumentChangedEmits(r, uri, diagnostics, context, d2, c3)
         IN /\ diagnostics' = d2
            /\ context' = c3
            /\ emitted' = log
            /\ lastFired' = FiredAfter(lastFired, log)
            /\ parsedVersion' = ParsedAfter(parsedVersion, uri, v, r, log, d2)
    ELSE /\ emitted' = <<>>
         /\ UNCHANGED <<diagnostics, context, lastFired, parsedVersion>>

\* Mutant of DiagnosticsAfterClose: the entry of a closed document is kept
DiagnosticsAfterCloseKept(uri, d) == d

\* The collection after the onDidCloseTextDocument handler
DiagnosticsAfterClose(uri, d) == [d EXCEPT ![uri] = NoErrors]

\* ------------------------------------------------------------------ events

NoPhase == "none"

\* activate(): the refresh on activation, then the handlers are registered
Activate ==
    /\ ~activated
    /\ activated' = TRUE
    /\ onActiveEditorChanged(active)
    /\ lastEvent' = [kind |-> "activate", uri |-> active, stale |-> FALSE,
                     phase |-> NoPhase]
    /\ UNCHANGED <<open, text, docVersion, active>>
    /\ UNCHANGED auditVars

\* vscode.window.onDidChangeActiveTextEditor(e)
DidChangeActiveTextEditor(e) ==
    /\ activated
    /\ e \in open \cup {Null}
    /\ active' = e
    /\ onActiveEditorChanged(e)
    /\ lastEvent' = [kind |-> "editor", uri |-> e,
                     stale |-> e # Null /\ parsedVersion[e].max # 0
                               /\ parsedVersion[e].max < docVersion[e],
                     phase |-> NoPhase]
    /\ UNCHANGED <<activated, open, text, docVersion>>
    /\ UNCHANGED auditVars

\* Where an edit stands in the scenario "a valid active document is broken,
\* then the text is reverted": "broke" after the breaking edit, "reverted"
\* after the edit that follows it and brings back the text of the frozen tree
EditPhase(uri, t) ==
    LET old == parseDocument(text[uri])
        new == parseDocument(t)
    IN IF uri # active THEN NoPhase
       ELSE IF /\ old.errors = NoErrors /\ old.node # NullNode
               /\ new.errors # NoErrors
       THEN "broke"
       ELSE IF /\ lastEvent.kind = "edit" /\ lastEvent.uri = uri
               /\ lastEvent.phase = "broke"
               /\ new.errors = NoErrors
               /\ new.node = lastFired.didChangeTree
       THEN "reverted"
       ELSE NoPhase

\* vscode.workspace.onDidChangeTextDocument(e): the document uri now holds t
DidChangeTextDocument(uri, t) ==
    /\ activated
    /\ uri \in open
    /\ t # text[uri]
    /\ TotalVersions < MaxTextVersions
    /\ text' = [text EXCEPT ![uri] = t]
    /\ docVersion' = [docVersion EXCEPT ![uri] = @ + 1]
    /\ onDocumentChanged(uri, t, docVersion[uri] + 1)
    /\ lastEvent' = [kind |-> "edit", uri |-> uri, stale |-> FALSE,
                     phase |-> EditPhase(uri, t)]
    /\ UNCHANGED <<activated, open, active>>
    /\ UNCHANGED auditVars

\* A document is opened with text t (no handler of the extension listens)
DidOpenTextDocument(uri, t) ==
    /\ activated
    /\ uri \notin open
    /\ TotalVersions < MaxTextVersions
    /\ open' = open \cup {uri}
    /\ text' = [text EXCEPT ![uri] = t]
    /\ docVersion' = [docVersion EXCEPT ![uri] = @ + 1]
    /\ lastEvent' = [kind |-> "open", uri |-> uri, stale |-> FALSE,
                     phase |-> NoPhase]
    /\ UNCHANGED <<activated, active, diagnostics, context, lastFired, emitted,
                   parsedVersion>>
    /\ UNCHANGED auditVars

\* vscode.workspace.onDidCloseTextDocument(document): a document closes once
\* no editor shows it (a change of its language id, which closes and reopens
\* it under an editor, is left out); the handler deletes its diagnostics entry
DidCloseTextDocument(uri) ==
    /\ activated
    /\ uri \in open
    /\ uri # active
    /\ open' = open \ {uri}
    /\ text' = [text EXCEPT ![uri] = NoText]
    /\ diagnostics' = DiagnosticsAfterClose(uri, diagnostics)
    /\ emitted' = <<>>
    /\ lastEvent' = [kind |-> "close", uri |-> uri, stale |-> FALSE,
                     phase |-> NoPhase]
    /\ UNCHANGED <<activated, docVersion, active, context, lastFired, parsedVersion>>
    /\ UNCHANGED auditVars

\* ----------------------------------------------------------- audit values

MainUri == "file:///main.json"
ExtUris == {"file:///ext1.json", "file:///ext2.json"}
AuditUris == {MainUri} \cup ExtUris

\* Pointers of the bundled document that issues are reported at
Pointers == {"/paths", "/definitions/Pet", "/definitions/Owner"}

\* What a lookup in the mapping table yields when nothing maps the pointer
NoMapping == [uri |-> Null, hash |-> "", pointer |-> ""]

\* A lookup result that is no object: reading its hash throws a TypeError
UndefinedMapping == [uri |-> Null, hash |-> "undefined", pointer |-> "undefined"]

\* Entries of the mapping table: { uri, pointer?, hash? }, exactly one of the two
HashEntry(u) == [uri |-> u, hash |-> "#/definitions/Shared", pointer |-> ""]
PointerEntry(u) == [uri |-> u, hash |-> "", pointer |-> "/definitions/Shared"]

MappingEntries ==
    {NoMapping} \cup {HashEntry(u) : u \in AuditUris} \cup {PointerEntry(u) : u \in ExtUris}

\* The i-th issue of a response, reported at pointer p
ReportedIssue(i, p) ==
    [pointer |-> p, ruleId |-> i, severity |-> i % 2, message |-> "issue"]

\* Responses of the audit service: up to MaxIssues issues at any pointers
IssueLists ==
    UNION { { [i \in 1..n |-> ReportedIssue(i, ps[i])] : ps \in [1..n -> Pointers] } :
            n \in 0..MaxIssues }

Grades == "grades"
NoResult == [grades |-> "none", issues |-> [u \in AuditUris |-> <<>>],
             documents |-> {}, badIssues |-> <<>>]

\* The last good tree of an external document: the fragments it holds
DocumentRoot(uri) == IF uri = MainUri THEN root ELSE {"#/definitions/Shared"}

\* -------------------------------------------------------- findIssueLocation

\* root.find(pointer): whether the tree holds a node at pointer
RootFind(r, pointer) == pointer \in r

\* findMapping(mappings, pointer): the entry for pointer, NoMapping without one
findMapping(m, pointer) == m[pointer]

NoLocation == [found |-> FALSE, threw |-> FALSE, uri |-> Null, pointer |-> ""]

\* findIssueLocation threw instead of returning
Thrown == [found |-> FALSE, threw |-> TRUE, uri |-> Null, pointer |-> ""]

Location(uri, pointer) == [found |-> TRUE, threw |-> FALSE, uri |-> uri, pointer |-> pointer]

\* Mutant of findIssueLocation: the location is taken from the mapping
\* without testing mapping.hash
findIssueLocationUnchecked(mainUri, r, m, pointer) ==
    IF RootFind(r, pointer)
    THEN Location(mainUri, pointer)
    ELSE LET mapping == findMapping(m, pointer)
         IN IF mapping = UndefinedMapping THEN Thrown
            ELSE Location(mapping.uri, mapping.hash)

\* Mutant of findIssueLocation: the mapping table is consulted first
findIssueLocationMappingFirst(mainUri, r, m, pointer) ==
    LET mapping == findMapping(m, pointer)
    IN IF mapping = UndefinedMapping THEN Thrown
       ELSE IF mapping.hash # ""
       THEN Location(mapping.uri, mapping.hash)
       ELSE IF RootFind(r, pointer)
       THEN Location(mainUri, pointer)
       ELSE NoLocation

\* findIssueLocation(mainUri, root, mappings, pointer): [uri, pointer] or
\* undefined; mapping.hash is read without a test of mapping
findIssueLocation(mainUri, r, m, pointer) ==
    IF RootFind(r, pointer)
    THEN Location(mainUri, pointer)
    ELSE LET mapping == findMapping(m, pointer)
         IN IF mapping = UndefinedMapping THEN Thrown
            ELSE IF mapping.hash # ""
            THEN Location(mapping.uri, mapping.hash)
            ELSE NoLocation

\* ------------------------------------------------------------ processIssues

\* Mutant of Resolved: the issue is grouped with the pointer it was reported at
ResolvedKeepsPointer(acc, issue, location) ==
    [acc EXCEPT
        !.documentUris =
            IF \E k \in 1..Len(@) : @[k] = location.uri
            THEN @ ELSE Append(@, location.uri),
        !.issuesPerDocument[location.uri] = Append(@, issue)]

\* issuesPerDocument and documentUris after an issue resolved to location
Resolved(acc, issue, location) ==
    [acc EXCEPT
        !.documentUris =
            IF \E k \in 1..Len(@) : @[k] = location.uri
            THEN @ ELSE Append(@, location.uri),
        !.issuesPerDocument[location.uri] =
            Append(@, [issue EXCEPT !.pointer = location.pointer])]

\* Mutant of ProcessIssue: an issue without a location is dropped
ProcessIssueDropsBad(acc, mainUri, r, m, issue) ==
    LET location == findIssueLocation(mainUri, r, m, issue.pointer)
    IN IF acc.threw THEN acc
       ELSE IF location.threw THEN [acc EXCEPT !.threw = TRUE]
       ELSE IF location.found THEN Resolved(acc, issue, location)
       ELSE acc

\* One iteration of the loop of processIssues over the issues; an exception
\* of findIssueLocation ends the loop
ProcessIssue(acc, mainUri, r, m, issue) ==
    LET location == findIssueLocation(mainUri, r, m, issue.pointer)
    IN IF acc.threw THEN acc
       ELSE IF location.threw THEN [acc EXCEPT !.threw = TRUE]
       ELSE IF location.found THEN Resolved(acc, issue, location)
       ELSE [acc EXCEPT !.badIssues = Append(@, issue)]

\* The loop of processIssues from its i-th issue on
RECURSIVE ProcessFrom(_, _, _, _, _, _)
ProcessFrom(acc, mainUri, r, m, issues, i) ==
    IF i > Len(issues) THEN acc
    ELSE ProcessFrom(ProcessIssue(acc, mainUri, r, m, issues[i]),
                     mainUri, r, m, issues, i + 1)

\* processIssues(document, cache, mappings, issues):
\* [root, Object.keys(documentUris), issuesPerDocument, badIssues]
processIssues(mainUri, r, m, issues) ==
    ProcessFrom([documentUris |-> <<mainUri>>,
                 issuesPerDocument |-> [u \in AuditUris \cup {Null} |-> <<>>],
                 badIssues |-> <<>>,
                 threw |-> FALSE],
                mainUri, r, m, issues, 1)

\* ------------------------------------------------------------ auditDocument

\* getLocationByPointer(document, root, pointer): the node's line, the first
\* line when the tree has no such node
getLocationByPointer(uri, r, pointer) ==
    IF pointer \in r
    THEN [lineNo |-> 1, range |-> <<1, 2>>]
    ELSE [lineNo |-> 0, range |-> <<0, 0>>]

\* issues[uri] = reportedIssues.map(...), lines 374-382
LocatedIssues(uri, list) ==
    [k \in 1..Len(list) |->
        LET at == getLocationByPointer(uri, DocumentRoot(uri), list[k].pointer)
        IN [pointer |-> list[k].pointer, ruleId |-> list[k].ruleId,
            severity |-> list[k].severity, message |-> list[k].message,
            documentUri |-> uri, lineNo |-> at.lineNo, range |-> at.range]]

\* auditDocument is called: it calls the remote audit and awaits the response
AuditRequested ==
    /\ auditPc = "start"
    /\ auditCalls' = auditCalls + 1
    /\ auditPc' = "awaitAudit"
    /\ UNCHANGED <<root, mappings, auditFailure, reportedIssues, documentUris,
                   issuesPerDocument, badIssues, files, loadIndex, opened, auditResult>>
    /\ UNCHANGED editorVars

\* auditDocument after processIssues returned p (or threw)
AfterProcessIssues(p, issues) ==
    /\ reportedIssues' = issues
    /\ documentUris' = p.documentUris
    /\ issuesPerDocument' = p.issuesPerDocument
    /\ badIssues' = p.badIssues
    /\ IF p.threw
       THEN /\ auditPc' = "failed"
            /\ auditFailure' = "process"
            /\ UNCHANGED <<files, loadIndex>>
       ELSE /\ auditPc' = "loading"
            /\ files' = {MainUri}
            /\ loadIndex' = 1
            /\ UNCHANGED auditFailure

\* Mutant of AuditResponded: a failed call is taken for a response without
\* issues
AuditRespondedSwallows(ok, issues) ==
    /\ auditPc = "awaitAudit"
    /\ IF ~ok
       THEN /\ reportedIssues' = <<>>
            /\ auditPc' = "loading"
            /\ auditFailure' = "audit"
            /\ files' = {MainUri}
            /\ UNCHANGED <<documentUris, issuesPerDocument, badIssues, loadIndex>>
       ELSE AfterProcessIssues(processIssues(MainUri, root, mappings, issues), issues)
    /\ UNCHANGED <<root, mappings, auditCalls, opened, auditResult>>
    /\ UNCHANGED editorVars

\* The remote audit settles: rejected (auditDocument rejects with it), or
\* resolved with issues, which processIssues maps before the loading loop
AuditResponded(ok, issues) ==
    /\ auditPc = "awaitAudit"
    /\ IF ~ok
       THEN /\ auditPc' = "failed"
            /\ auditFailure' = "audit"
            /\ UNCHANGED <<reportedIssues, documentUris, issuesPerDocument, badIssues,
                           files, loadIndex>>
       ELSE AfterProcessIssues(processIssues(MainUri, root, mappings, issues), issues)
    /\ UNCHANGED <<root, mappings, auditCalls, opened, auditResult>>
    /\ UNCHANGED editorVars

\* A loading loop without the "already loaded" test of line 364
LoadDocumentAlways(ok) ==
    /\ auditPc = "loading"
    /\ loadIndex <= Len(documentUris)
    /\ LET uri == documentUris[loadIndex]
       IN /\ opened' = Append(opened, uri)
          /\ IF ok
             THEN /\ files' = files \cup {uri}
                  /\ loadIndex' = loadIndex + 1
                  /\ UNCHANGED <<auditPc, auditFailure>>
             ELSE /\ auditPc' = "failed"
                  /\ auditFailure' = "open"
                  /\ UNCHANGED <<files, loadIndex>>
    /\ UNCHANGED <<root, mappings, auditCalls, reportedIssues, documentUris,
                   issuesPerDocument, badIssues, auditResult>>
    /\ UNCHANGED editorVars

\* One iteration of "load and parse all documents": a uri without a files
\* entry is opened (openTextDocument may reject) and its tree taken from the cache
LoadDocument(ok) ==
    /\ auditPc = "loading"
    /\ loadIndex <= Len(documentUris)
    /\ LET uri == documentUris[loadIndex]
       IN IF uri \in files
          THEN /\ ok
               /\ loadIndex' = loadIndex + 1
               /\ UNCHANGED <<auditPc, auditFailure, files, opened>>
          ELSE /\ opened' = Append(opened, uri)
               /\ IF ok
                  THEN /\ files' = files \cup {uri}
                       /\ loadIndex' = loadIndex + 1
                       /\ UNCHANGED <<auditPc, auditFailure>>
                  ELSE /\ auditPc' = "failed"
                       /\ auditFailure' = "open"
                       /\ UNCHANGED <<files, loadIndex>>
    /\ UNCHANGED <<root, mappings, auditCalls, reportedIssues, documentUris,
                   issuesPerDocument, badIssues, auditResult>>
    /\ UNCHANGED editorVars

\* Mutant of BuildResult: the documents map is built from the groups' keys
BuildResultDocumentsOfGroups ==
    /\ auditPc = "loading"
    /\ loadIndex > Len(documentUris)
    /\ auditResult' =
           [grades |-> Grades,
            issues |-> [u \in AuditUris |-> LocatedIssues(u, issuesPerDocument[u])],
            documents |-> {u \in AuditUris : issuesPerDocument[u] # <<>>},
            badIssues |-> badIssues]
    /\ auditPc' = "done"
    /\ UNCHANGED <<root, mappings, auditFailure, auditCalls, reportedIssues,
                   documentUris, issuesPerDocument, badIssues, files, loadIndex, opened>>
    /\ UNCHANGED editorVars

\* The rest of auditDocument: locations per document, the documents map, return
BuildResult ==
    /\ auditPc = "loading"
    /\ loadIndex > Len(documentUris)
    /\ auditResult' =
           [grades |-> Grades,
            issues |-> [u \in AuditUris |-> LocatedIssues(u, issuesPerDocument[u])],
            documents |-> files,
            badIssues |-> badIssues]
    /\ auditPc' = "done"
    /\ UNCHANGED <<root, mappings, auditFailure, auditCalls, reportedIssues,
                   documentUris, issuesPerDocument, badIssues, files, loadIndex, opened>>
    /\ UNCHANGED editorVars

\* ---------------------------------------------------------- specification

\* The editor before activate(), with any documents open
EditorInit ==
    /\ activated = FALSE
    /\ open \in SUBSET Uris
    /\ text \in [Uris -> Texts \cup {NoText}]
    /\ \A u \in Uris : (u \in open) <=> (text[u] # NoText)
    /\ docVersion = [u \in Uris |-> IF u \in open THEN 1 ELSE 0]
    /\ active \in open \cup {Null}
    /\ diagnostics = [u \in Uris |-> NoErrors]
    /\ context = [openapiErrors |-> FALSE, openapiTwoEnabled |-> FALSE,
                  openapiThreeEnabled |-> FALSE]
    /\ lastFired = [didChangeTree |-> NullNode,
                    didChangeTreeIncludingErrors |-> NullNode,
                    didChangeEditor |-> Null]
    /\ emitted = <<>>
    /\ parsedVersion = [u \in Uris |-> [tree |-> 0, diag |-> 0, max |-> 0]]
    /\ lastEvent = [kind |-> "none", uri |-> Null, stale |-> FALSE,
                    phase |-> NoPhase]

\* No document is open
EditorIdle ==
    /\ EditorInit
    /\ open = {}

\* auditDocument before its call, for the main document's tree r and the
\* mapping table m
AuditStart(r, m, pc) ==
    /\ root = r
    /\ mappings = m
    /\ auditPc = pc
    /\ auditFailure = "none"
    /\ auditCalls = 0
    /\ reportedIssues = <<>>
    /\ documentUris = <<>>
    /\ issuesPerDocument = [u \in AuditUris \cup {Null} |-> <<>>]
    /\ badIssues = <<>>
    /\ files = {}
    /\ loadIndex = 1
    /\ opened = <<>>
    /\ auditResult = NoResult

Init ==
    /\ EditorInit
    /\ AuditStart({}, [p \in Pointers |-> NoMapping], "idle")

Next ==
    \/ Activate
    \/ \E e \in Uris \cup {Null} : DidChangeActiveTextEditor(e)
    \/ \E u \in Uris, t \in Texts : DidChangeTextDocument(u, t)
    \/ \E u \in Uris, t \in Texts : DidOpenTextDocument(u, t)
    \/ \E u \in Uris : DidCloseTextDocument(u)

\* The document events of the editor
Spec == Init /\ [][Next]_vars

AuditInit ==
    /\ EditorIdle
    /\ \E r \in SUBSET Pointers, m \in [Pointers -> MappingEntries] :
           AuditStart(r, m, "start")

AuditNext ==
    \/ AuditRequested
    \/ \E ok \in BOOLEAN, issues \in IssueLists : AuditResponded(ok, issues)
    \/ \E ok \in BOOLEAN : LoadDocument(ok)
    \/ BuildResult

\* One run of auditDocument, for any tree of the main document, any mapping
\* table and any response of the audit service
AuditSpec == AuditInit /\ [][AuditNext]_vars

\* ------------------------------------------------- claims: document events

ValidParse(r) == r.errors = NoErrors /\ r.node # NullNode

\* C2: an edit that breaks the valid active document leaves the tree last
\* delivered on didChangeTree unchanged, while the current parse (delivered on
\* didChangeTreeIncludingErrors) has errors and these are the document's
\* diagnostics entry; an edit of the active document to an error-free text,
\* the reverted text among them, delivers the tree of that text on both.
C2_LastGoodFrozenThenRestored ==
    [][\A u \in Uris, t \in Texts :
          (DidChangeTextDocument(u, t) /\ u = active) =>
              LET old == parseDocument(text[u])
                  new == parseDocument(t)
              IN /\ (ValidParse(old) /\ new.errors # NoErrors) =>
                        /\ lastFired'.didChangeTree = lastFired.didChangeTree
                        /\ lastFired'.didChangeTree = old.node
                        /\ lastFired'.didChangeTreeIncludingErrors = new.node
                        /\ diagnostics'[u] = new.errors
                        /\ context'.openapiErrors
                 /\ (new.errors = NoErrors) =>
                        /\ lastFired'.didChangeTree = new.node
                        /\ lastFired'.didChangeTreeIncludingErrors = new.node
                        /\ diagnostics'[u] = NoErrors
    ]_vars

\* C2 witness: the active document was valid, was broken, and the next edit
\* reverted it: both trees are again the tree of the reverted text
C2_Witness ==
    /\ lastEvent.kind = "edit"
    /\ lastEvent.phase = "reverted"
    /\ lastEvent.uri = active
    /\ lastFired.didChangeTree = parseDocument(text[active]).node
    /\ lastFired.didChangeTreeIncludingErrors = lastFired.didChangeTree

\* C3: an edit of a document that is not the active editor's (or with no
\* active editor) parses nothing, emits nothing and leaves the diagnostics
\* and the context flags as they were.
C3_InactiveEditIgnored ==
    [][\A u \in Uris, t \in Texts :
          (DidChangeTextDocument(u, t) /\ u # active) =>
              /\ emitted' = <<>>
              /\ UNCHANGED <<diagnostics, context, lastFired, parsedVersion>>
    ]_vars

\* C3 witness: the last event was an edit of an open document while another
\* document was active, and that document's text has errors
C3_Witness ==
    /\ lastEvent.kind = "edit"
    /\ active # Null
    /\ lastEvent.uri # active
    /\ parseDocument(text[lastEvent.uri]).errors # NoErrors
    /\ diagnostics[lastEvent.uri] = NoErrors

\* C4: an active-editor change to a document parses the document's current
\* text in the handler: afterwards the diagnostics entry is the errors of that
\* text, openapiErrors says whether there are any, the tree of that text was
\* delivered, and the parsed version is the document's version.
C4_EditorChangeParsesCurrentText ==
    [][\A e \in Uris :
          DidChangeActiveTextEditor(e) =>
              LET r == parseDocument(text[e])
              IN /\ diagnostics'[e] = r.errors
                 /\ context'.openapiErrors = (r.errors # NoErrors)
                 /\ lastFired'.didChangeTreeIncludingErrors = r.node
                 /\ parsedVersion'[e].max = docVersion[e]
                 /\ parsedVersion'[e].diag = docVersion[e]
    ]_vars

\* C4 witness: the editor changed to a document that was parsed before and
\* edited since, while it was inactive
C4_Witness ==
    /\ lastEvent.kind = "editor"
    /\ lastEvent.stale
    /\ active = lastEvent.uri
    /\ parsedVersion[active].max = docVersion[active]

\* C5 as stated: no diagnostics entry for a document that is closed or whose
\* current text parses without errors.
C5_NoEntryForClosedOrValid ==
    \A u \in Uris :
        (u \notin open \/ parseDocument(text[u]).errors = NoErrors)
            => diagnostics[u] = NoErrors

\* C5 amended: no diagnostics entry for a closed document, nor for the active
\* editor's document when its current text parses without errors.
C5_NoEntryForClosedOrActiveValid ==
    activated =>
        \A u \in Uris :
            (u \notin open \/ (u = active /\ parseDocument(text[u]).errors = NoErrors))
                => diagnostics[u] = NoErrors

\* C5 witness: a document that had an entry was closed
C5_Witness ==
    /\ lastEvent.kind = "close"
    /\ parsedVersion[lastEvent.uri].diag > 0
    /\ diagnostics[lastEvent.uri] = NoErrors
    /\ \E u \in Uris : diagnostics[u] # NoErrors

\* C6: the tree last delivered for a uri and its diagnostics entry come from
\* the newest text version parsed for that uri, and for the active editor's
\* document that is its current version.
C6_NewestParsedVersionWins ==
    activated =>
        \A u \in Uris :
            /\ parsedVersion[u].tree = parsedVersion[u].max
            /\ parsedVersion[u].diag = parsedVersion[u].max
            /\ (u = active => parsedVersion[u].max = docVersion[u])

\* C6 witness: a uri saw edits and editor changes interleaved: it was parsed,
\* edited twice and is the active document again
C6_Witness ==
    /\ lastEvent.kind = "editor"
    /\ active # Null
    /\ docVersion[active] >= 3
    /\ parsedVersion[active].tree = 3

\* ------------------------------------------------------ claims: audit flow

\* processIssues has returned in this run of auditDocument
Processed == auditPc \in {"loading", "done"} \/ auditFailure = "open"

GroupKeys == AuditUris \cup {Null}

\* How often the i-th reported issue occurs in the list
OccurrencesIn(list, i) == Cardinality({k \in 1..Len(list) : list[k].ruleId = i})

\* How often the i-th reported issue occurs in the groups of g
OccurrencesInGroups(g, keys, i) ==
    SumOver([u \in keys |-> OccurrencesIn(g[u], i)], keys)

ResolvedCount(g, keys) == SumOver([u \in keys |-> Len(g[u])], keys)

\* C1: the resolved issues of all groups and the bad issues are together as
\* many as the reported issues, and each reported issue occurs exactly once in
\* the groups and the bad issues; the same holds of the returned result.
C1_IssuesConserved ==
    /\ Processed =>
          /\ ResolvedCount(issuesPerDocument, GroupKeys) + Len(badIssues)
                 = Len(reportedIssues)
          /\ \A i \in 1..Len(reportedIssues) :
                 OccurrencesInGroups(issuesPerDocument, GroupKeys, i)
                     + OccurrencesIn(badIssues, i) = 1
    /\ auditPc = "done" =>
          /\ ResolvedCount(auditResult.issues, AuditUris) + Len(auditResult.badIssues)
                 = Len(reportedIssues)
          /\ \A i \in 1..Len(reportedIssues) :
                 OccurrencesInGroups(auditResult.issues, AuditUris, i)
                     + OccurrencesIn(auditResult.badIssues, i) = 1

\* C1 witness: a finished run whose three issues went to the main document's
\* group, to an external document's group and to the bad issues
C1_Witness ==
    /\ auditPc = "done"
    /\ Len(reportedIssues) = 3
    /\ Len(auditResult.issues[MainUri]) = 1
    /\ \E u \in ExtUris : Len(auditResult.issues[u]) = 1
    /\ Len(auditResult.badIssues) = 1

\* The i-th reported issue has a pointer the root tree lacks and nothing maps
Unmapped(i) ==
    /\ ~RootFind(root, reportedIssues[i].pointer)
    /\ mappings[reportedIssues[i].pointer] = NoMapping

\* C7: an issue whose pointer is neither in the root tree nor mapped is a bad
\* issue, as reported, and in no group, and processIssues returns (the run
\* does not fail in the mapping).
C7_UnmappedIssueIsBad ==
    /\ auditFailure # "process"
    /\ Processed =>
          \A i \in 1..Len(reportedIssues) :
              Unmapped(i) =>
                  /\ \E k \in 1..Len(badIssues) : badIssues[k] = reportedIssues[i]
                  /\ OccurrencesInGroups(issuesPerDocument, GroupKeys, i) = 0

\* C7 witness: a finished run with no mapping at all ("no external
\* references") returned an issue as a bad issue
C7_Witness ==
    /\ auditPc = "done"
    /\ \A p \in Pointers : mappings[p] = NoMapping
    /\ \E i \in 1..Len(reportedIssues) : Unmapped(i)
    /\ Len(auditResult.badIssues) >= 1
    /\ auditResult.documents = {MainUri}

\* C8 as stated: an issue whose pointer is not in the root tree and that has
\* a mapping entry, with a pointer or with a hash, is grouped under the
\* entry's uri and is no bad issue.
C8_MappedIssueResolved ==
    Processed =>
        \A i \in 1..Len(reportedIssues) :
            LET p == reportedIssues[i].pointer
            IN (~RootFind(root, p) /\ mappings[p] # NoMapping) =>
                   /\ OccurrencesIn(issuesPerDocument[mappings[p].uri], i) = 1
                   /\ OccurrencesIn(badIssues, i) = 0

\* C9: an issue whose pointer is in the root tree is in the main document's
\* group with its pointer as reported, in no other group and no bad issue,
\* whatever the mapping table holds for the pointer.
C9_RootHitWins ==
    Processed =>
        \A i \in 1..Len(reportedIssues) :
            RootFind(root, reportedIssues[i].pointer) =>
                /\ \E k \in 1..Len(issuesPerDocument[MainUri]) :
                       issuesPerDocument[MainUri][k] = reportedIssues[i]
                /\ OccurrencesInGroups(issuesPerDocument, GroupKeys \ {MainUri}, i) = 0
                /\ OccurrencesIn(badIssues, i) = 0

\* C9 witness: a finished run with an issue at a pointer of the root tree
\* that the mapping table maps, by hash, to an external document
C9_Witness ==
    /\ auditPc = "done"
    /\ \E i \in 1..Len(reportedIssues) :
           /\ RootFind(root, reportedIssues[i].pointer)
           /\ mappings[reportedIssues[i].pointer] \in {HashEntry(u) : u \in ExtUris}
    /\ auditResult.documents = {MainUri}

\* C10: when the remote audit call fails, auditDocument has failed with it
\* after that one call: no issue processed, no document opened, no result.
C10_AuditFailureIsTerminal ==
    auditFailure = "audit" =>
        /\ auditPc = "failed"
        /\ auditCalls = 1
        /\ reportedIssues = <<>>
        /\ documentUris = <<>>
        /\ \A u \in GroupKeys : issuesPerDocument[u] = <<>>
        /\ badIssues = <<>>
        /\ files = {}
        /\ opened = <<>>
        /\ auditResult = NoResult

\* C10 witness: the remote call failed in a run whose mapping table maps a
\* pointer to an external document
C10_Witness ==
    /\ auditFailure = "audit"
    /\ auditPc = "failed"
    /\ \E p \in Pointers : mappings[p] \in {HashEntry(u) : u \in ExtUris}

\* C11: within one auditDocument pass every external document is opened at
\* most once however many issues target it, the main document is never
\* opened again, and a document is opened only if an issue resolved to it.
C11_ExternalDocumentsOpenedOnce ==
    /\ \A j, k \in 1..Len(opened) : opened[j] = opened[k] => j = k
    /\ \A k \in 1..Len(opened) :
           /\ opened[k] # MainUri
           /\ opened[k] \in ExtUris
           /\ issuesPerDocument[opened[k]] # <<>>

\* C11 witness: a completed pass in which two issues resolved to the same
\* external document and one to the main document, with that external
\* document opened once
C11_Witness ==
    /\ auditPc = "done"
    /\ \E u \in ExtUris :
           /\ Len(issuesPerDocument[u]) >= 2
           /\ opened = <<u>>
    /\ issuesPerDocument[MainUri] # <<>>

\* ------------------------------------------------- claims: notifications

\* The last event ran a handler that parsed the document lastEvent.uri
ParsedByLastEvent ==
    /\ lastEvent.uri # Null
    /\ \/ lastEvent.kind \in {"activate", "editor"}
       \/ lastEvent.kind = "edit" /\ lastEvent.uri = active

TreeEmitters == {"didChangeTree", "didChangeTreeIncludingErrors"}

\* How many notifications of emitter e are in log
EmittedBy(log, e) == Cardinality({k \in 1..Len(log) : log[k].emitter = e})

\* C12: every subscriber notified of the tree of a parse of the active
\* document reads, at that moment, the diagnostics entry and the openapiErrors
\* flag written from that same parse.
C12_TreeNotifiedAfterDiagnostics ==
    ParsedByLastEvent =>
        LET r == parseDocument(text[lastEvent.uri])
        IN \A k \in 1..Len(emitted) :
               emitted[k].emitter \in TreeEmitters =>
                   /\ emitted[k].node = r.node
                   /\ emitted[k].diag = r.errors
                   /\ emitted[k].openapiErrors = ErrorsFlagAfter(r.errors)

\* C13: a parse of the active document emits didChangeTree once if it has no
\* errors and never if it has, and didChangeTreeIncludingErrors once in both
\* cases, each with the tree of that parse.
C13_TreeNotificationsPerParse ==
    ParsedByLastEvent =>
        LET r == parseDocument(text[lastEvent.uri])
        IN /\ EmittedBy(emitted, "didChangeTree") =
                  (IF r.errors = NoErrors THEN 1 ELSE 0)
           /\ EmittedBy(emitted, "didChangeTreeIncludingErrors") = 1
           /\ \A k \in 1..Len(emitted) :
                  emitted[k].emitter \in TreeEmitters =>
                      /\ emitted[k].node = r.node
                      /\ emitted[k].editor = lastEvent.uri

\* C13 witness: an edit of the active document parsed with errors and only
\* the including-errors notification went out, after an earlier valid parse
\* had fired didChangeTree
C13_Witness ==
    /\ lastEvent.kind = "edit"
    /\ lastEvent.uri = active
    /\ parseDocument(text[active]).errors # NoErrors
    /\ Len(emitted) = 1
    /\ emitted[1].emitter = "didChangeTreeIncludingErrors"
    /\ lastFired.didChangeTree # NullNode

\* The version flags say version v
VersionFlagsAre(c, v) ==
    /\ c.openapiTwoEnabled = (v = V2)
    /\ c.openapiThreeEnabled = (v = V3)

\* C14: an edit of the active document that parses with errors leaves
\* openapiTwoEnabled and openapiThreeEnabled as they were; an active-editor
\* change to a document sets them from the parsed version, also when the
\* parse has errors or the document is unsupported.
C14_VersionFlagsFrozenOnEditOnly ==
    [][/\ \A u \in Uris, t \in Texts :
            (/\ DidChangeTextDocument(u, t)
             /\ u = active
             /\ parseDocument(t).errors # NoErrors) =>
                /\ context'.openapiTwoEnabled = context.openapiTwoEnabled
                /\ context'.openapiThreeEnabled = context.openapiThreeEnabled
       /\ \A e \in Uris :
            DidChangeActiveTextEditor(e) =>
                VersionFlagsAre(context', parseDocument(text[e]).version)
    ]_vars

\* C14 witness: the active document was edited into a text with errors whose
\* version key differs from the one the flags still show
C14_Witness ==
    /\ lastEvent.kind = "edit"
    /\ lastEvent.uri = active
    /\ parseDocument(text[active]).errors # NoErrors
    /\ parseDocument(text[active]).version = V3
    /\ context.openapiTwoEnabled
    /\ ~context.openapiThreeEnabled

\* ------------------------------------------------ claims: audit result

IssueFields == {"pointer", "ruleId", "severity", "message",
                "documentUri", "lineNo", "range"}

\* C15: every issue of the returned groups has the severity, message and
\* ruleId of its reported issue and, added, documentUri, lineNo and range;
\* its pointer is the reported pointer if the root tree has it and the
\* mapping entry's hash otherwise; its documentUri is the key of its group.
C15_ResolvedIssueFields ==
    auditPc = "done" =>
        \A u \in AuditUris :
            \A k \in 1..Len(auditResult.issues[u]) :
                LET x  == auditResult.issues[u][k]
                    i  == x.ruleId
                    at == getLocationByPointer(u, DocumentRoot(u), x.pointer)
                IN /\ DOMAIN x = IssueFields
                   /\ i \in 1..Len(reportedIssues)
                   /\ x.severity = reportedIssues[i].severity
                   /\ x.message = reportedIssues[i].message
                   /\ x.pointer =
                          IF RootFind(root, reportedIssues[i].pointer)
                          THEN reportedIssues[i].pointer
                          ELSE mappings[reportedIssues[i].pointer].hash
                   /\ x.documentUri = u
                   /\ x.documentUri =
                          IF RootFind(root, reportedIssues[i].pointer)
                          THEN MainUri
                          ELSE mappings[reportedIssues[i].pointer].uri
                   /\ x.lineNo = at.lineNo
                   /\ x.range = at.range

\* C15 witness: the result holds an issue resolved in the root tree and an
\* issue resolved through the mapping, whose pointer is the entry's hash and
\* not the reported pointer
C15_Witness ==
    /\ auditPc = "done"
    /\ \E k \in 1..Len(auditResult.issues[MainUri]) :
           LET x == auditResult.issues[MainUri][k]
           IN /\ RootFind(root, reportedIssues[x.ruleId].pointer)
              /\ x.pointer = reportedIssues[x.ruleId].pointer
    /\ \E u \in ExtUris :
           \E k \in 1..Len(auditResult.issues[u]) :
               LET x == auditResult.issues[u][k]
               IN /\ x.pointer # reportedIssues[x.ruleId].pointer
                  /\ x.pointer = mappings[reportedIssues[x.ruleId].pointer].hash
                  /\ x.lineNo = 1

\* C16: in the returned result every uri that keys a group of issues is a key
\* of the documents map, and the main document is in the documents map also
\* when no issue resolved to it.
C16_GroupsHaveDocuments ==
    auditPc = "done" =>
        /\ MainUri \in auditResult.documents
        /\ \A u \in AuditUris :
               auditResult.issues[u] # <<>> => u \in auditResult.documents
        /\ auditResult.documents \subseteq AuditUris

\* C16 witness: a result with a group for an external document and none for
\* the main document
C16_Witness ==
    /\ auditPc = "done"
    /\ auditResult.issues[MainUri] = <<>>
    /\ \E u \in ExtUris :
           /\ auditResult.issues[u] # <<>>
           /\ auditResult.documents = {MainUri, u}

\* ------------------------------------------------ claims: context flags

\* C17: after every handler at most one of openapiTwoEnabled and
\* openapiThreeEnabled is true.
C17_OneVersionFlagAtMost ==
    ~(context.openapiTwoEnabled /\ context.openapiThreeEnabled)

\* C17 witness: the editor changed to a version 2 document after a version 3
\* document had been parsed without errors, and only openapiTwoEnabled is true
C17_Witness ==
    /\ lastEvent.kind = "editor"
    /\ active # Null
    /\ parseDocument(text[active]).version = V2
    /\ context.openapiTwoEnabled
    /\ ~context.openapiThreeEnabled
    /\ \E u \in open \ {active} :
           /\ parsedVersion[u].max = docVersion[u]
           /\ parseDocument(text[u]).version = V3
           /\ parseDocument(text[u]).errors = NoErrors

\* C18: whenever openapiErrors is false, the diagnostics collection holds no
\* entry for the active editor's document.
C18_NoErrorsFlagNoActiveEntry ==
    (active # Null /\ ~context.openapiErrors) => diagnostics[active] = NoErrors

\* C18 witness: openapiErrors is false and the active document has no entry
\* after the editor changed away from a document that keeps its entry
C18_Witness ==
    /\ lastEvent.kind = "editor"
    /\ active # Null
    /\ ~context.openapiErrors
    /\ diagnostics[active] = NoErrors
    /\ \E u \in open \ {active} : diagnostics[u] # NoErrors

\* C19: when the active editor changes to none, didChangeTree,
\* didChangeTreeIncludingErrors and didChangeEditor are each emitted once,
\* with a null tree or editor and version Unknown, nothing is parsed, and the
\* diagnostics and the three context flags stay as they were.
C19_NoEditorNotifiesOnly ==
    [][DidChangeActiveTextEditor(Null) =>
          /\ Len(emitted') = 3
          /\ \A e \in TreeEmitters \cup {"didChangeEditor"} :
                 EmittedBy(emitted', e) = 1
          /\ \A k \in 1..3 :
                 /\ emitted'[k].node = NullNode
                 /\ emitted'[k].editor = Null
                 /\ emitted'[k].version = Unknown
          /\ UNCHANGED <<diagnostics, context, parsedVersion>>
    ]_vars

\* C19 witness: the editor changed to none while a document with errors was
\* active: the three null notifications went out, its entry and the flags of
\* its parse are still there
C19_Witness ==
    /\ lastEvent.kind = "editor"
    /\ lastEvent.uri = Null
    /\ active = Null
    /\ Len(emitted) = 3
    /\ lastFired.didChangeEditor = Null
    /\ context.openapiErrors
    /\ context.openapiThreeEnabled
    /\ \E u \in open : diagnostics[u] # NoErrors

====
